---- MODULE Spec2Model ----
(***************************************************************************)
(* rd-burndown: the local cache of a remote tracker's tickets              *)
(* (core/data_manager.py over core/database.py), the daily snapshots       *)
(* rebuilt from it and the scope-change log.                               *)
(*                                                                         *)
(* Dates are day numbers (integers, possibly negative); timestamps are     *)
(* kept at day granularity, which is what every SQL DATE(...) and every    *)
(* datetime.date() in the code reduces them to.  Hours are integers.       *)
(***************************************************************************)
EXTENDS Integers, Sequences, FiniteSets, TLC

\* ---------------------------------------------------------------- bounds
MaxDay == 1
MaxHours == 1
MaxTicketId == 2
MaxProjectId == 2
MaxEdits == 3
MaxCalls == 2
MaxStores == 3
MaxCalcDay == 3
MaxCalcHours == 2
MaxIdleDays == 2
MaxScopeChanges == 2

\* ------------------------------------------------------ program constants
\* Python None / SQL NULL
Null == 0 - 1000
\* _update_daily_snapshots: timedelta(days=7)
TrailingDays == 7
\* status ids of TicketData.is_completed
CompletedStatusIds == {3, 5, 6}

ProjectIds == 1..MaxProjectId
TicketIds == 1..MaxTicketId
Days == 0..MaxDay
\* estimated_hours as the tracker delivers it: absent, zero or positive
Estimates == {Null} \cup (0..MaxHours)
\* the status ids the modelled tracker uses: 1 (open), 5 (closed)
StatusIds == {1, 5}
\* the project start date the tracker delivers: absent or a date
StartDates == {Null} \cup Days
\* the sinceDate a caller may supply
SinceDates == {Null} \cup Days

VARIABLES
    today,          \* date.today()
    remote,         \* the tracker's tickets (set of issue records)
    next_id,        \* the id the tracker gives the next ticket
    edits,          \* how many edits the tracker has seen
    calls,          \* how many operations were called
    projects,       \* table projects
    tickets,        \* table tickets
    daily_snapshots,\* table daily_snapshots
    scope_changes,  \* table scope_changes, in insertion (rowid) order
    versions_cache, \* the projects with a project_<id>_versions.json cache file
    counted,        \* history: per snapshot key, the ticket ids its last rebuild counted
    rebuilds,       \* history: per snapshot key, rebuilds since tickets last changed (up to 2)
    synced,         \* history: the projects whose sync_project has returned since their last clear
    call,           \* history: the operation that ran last, its inputs and writes
    ret,            \* what the last DataManager call returned or raised
    runs,           \* the synchronisation runs in progress, each at its step
    dbs,            \* the database files: recorded schema versions and tables
    calc            \* the calculator: a timeline, the call made on it, its result

\* what the operations of the DataManager leave alone
aux == <<runs, dbs, calc>>
vars == <<today, remote, next_id, edits, calls, projects, tickets, daily_snapshots, scope_changes,
          versions_cache, counted, rebuilds, synced, call, ret, runs, dbs, calc>>
\* everything the DataManager persists
store == <<projects, tickets, daily_snapshots, scope_changes, versions_cache>>

\* ------------------------------------------------------------- helpers
RECURSIVE SumHours(_)
\* sum of (estimated_hours or 0.0) over a set of ticket rows
Hours(h) == IF h = Null THEN 0 ELSE h
SumHours(S) ==
    IF S = {} THEN 0
    ELSE LET r == CHOOSE x \in S : TRUE
         IN  Hours(r.estimated_hours) + SumHours(S \ {r})

MinOf(S) == CHOOSE m \in S : \A n \in S : m <= n
MaxOf(S) == CHOOSE m \in S : \A n \in S : m >= n

RECURSIVE SortById(_)
\* a set of ticket records as a list, by ascending id
SortById(S) ==
    IF S = {} THEN <<>>
    ELSE LET r == CHOOSE x \in S : \A y \in S : x.id <= y.id
         IN  <<r>> \o SortById(S \ {r})

\* ------------------------------------------------- models.py: TicketData
is_completed(t) == t.status_id \in CompletedStatusIds
completion_date(t) == IF is_completed(t) THEN t.updated_on ELSE Null

\* ------------------------------------------ redmine_client.py: the adapter
\* get_project_tickets(project_id, include_closed)
get_project_tickets(project_id, include_closed) ==
    SortById({i \in remote : /\ i.project_id = project_id
                             /\ (include_closed \/ i.status_id # 5)})

\* get_updated_tickets(project_id, since_date)
get_updated_tickets(project_id, since_date) ==
    SortById({i \in remote : /\ i.project_id = project_id
                             /\ (since_date = Null \/ i.updated_on >= since_date)})

\* ------------------------------------------------ database.py / SQL rows
\* a write that leaves only the new row in the table
ReplaceAllTickets(table, row) == {row}

\* INSERT OR REPLACE INTO tickets: primary key id
InsertOrReplaceTicket(table, row) ==
    {r \in table : r.id # row.id} \cup {row}

\* INSERT OR REPLACE INTO projects: primary key id
InsertOrReplaceProject(table, row) ==
    {r \in table : r.id # row.id} \cup {row}

\* an INSERT into a table without the UNIQUE constraint
InsertSnapshot(table, row) == table \cup {row}

\* an INSERT OR IGNORE: the row already there for the key is kept
InsertOrIgnoreSnapshot(table, row) ==
    IF \E r \in table : r.date = row.date /\ r.project_id = row.project_id
    THEN table ELSE table \cup {row}

\* INSERT OR REPLACE INTO daily_snapshots: UNIQUE(date, project_id)
InsertOrReplaceSnapshot(table, row) ==
    {r \in table : ~(r.date = row.date /\ r.project_id = row.project_id)}
        \cup {row}

\* ---------------------------------------------------- data_manager.py
\* _save_project
_save_project(table, project_id, start_date) ==
    InsertOrReplaceProject(table,
        [id |-> project_id, start_date |-> start_date])

TicketRow(t) ==
    [id |-> t.id, project_id |-> t.project_id,
     estimated_hours |-> t.estimated_hours, status_id |-> t.status_id,
     created_on |-> t.created_on, updated_on |-> t.updated_on,
     completed_on |-> completion_date(t), updated_at |-> today]

RECURSIVE _save_tickets(_, _)
\* _save_tickets: executemany of INSERT OR REPLACE, one transaction
_save_tickets(table, list) ==
    IF list = <<>> THEN table
    ELSE _save_tickets(InsertOrReplaceTicket(table, TicketRow(Head(list))),
                       Tail(list))

\* the SELECT of _create_daily_snapshot
SnapshotTickets(tbl, project_id, target_date) ==
    {r \in tbl : r.project_id = project_id /\ r.created_on <= target_date}

\* completed strictly before the target date
CompletedBefore(r, target_date) ==
    r.completed_on # Null /\ r.completed_on < target_date

\* the completed branch of the loop of _create_daily_snapshot
CompletedAsOf(r, target_date) ==
    r.completed_on # Null /\ r.completed_on <= target_date

\* a rebuild that stores the total as the remaining hours
SnapshotRowNoSubtract(tbl, project_id, target_date) ==
    LET rows == SnapshotTickets(tbl, project_id, target_date)
        done == {r \in rows : CompletedAsOf(r, target_date)}
    IN  [date |-> target_date, project_id |-> project_id,
         total_estimated_hours |-> SumHours(rows),
         completed_hours |-> SumHours(done),
         remaining_hours |-> SumHours(rows),
         active_ticket_count |-> Cardinality(rows \ done),
         completed_ticket_count |-> Cardinality(done),
         updated_at |-> today]

\* the row _create_daily_snapshot computes and writes
SnapshotRow(tbl, project_id, target_date) ==
    LET rows == SnapshotTickets(tbl, project_id, target_date)
        done == {r \in rows : CompletedAsOf(r, target_date)}
        total_hours == SumHours(rows)
        completed_hours == SumHours(done)
    IN  [date |-> target_date, project_id |-> project_id,
         total_estimated_hours |-> total_hours,
         completed_hours |-> completed_hours,
         remaining_hours |-> total_hours - completed_hours,
         active_ticket_count |-> Cardinality(rows \ done),
         completed_ticket_count |-> Cardinality(done),
         updated_at |-> today]

\* _create_daily_snapshot
_create_daily_snapshot(snaps, tbl, project_id, target_date) ==
    InsertOrReplaceSnapshot(snaps, SnapshotRow(tbl, project_id, target_date))

RECURSIVE CreateRange(_, _, _, _, _)
\* the while loops of _build_daily_snapshots and _update_daily_snapshots
CreateRange(snaps, tbl, project_id, current_date, end_date) ==
    IF current_date > end_date THEN snaps
    ELSE CreateRange(_create_daily_snapshot(snaps, tbl, project_id, current_date),
                     tbl, project_id, current_date + 1, end_date)

\* a start date that ignores the tickets
BuildStartDateNoTickets(prj, tbl, project_id) ==
    LET project == CHOOSE r \in prj : r.id = project_id
    IN  IF project.start_date # Null THEN project.start_date ELSE today

\* the start date of _build_daily_snapshots
BuildStartDate(prj, tbl, project_id) ==
    LET project == CHOOSE r \in prj : r.id = project_id
        mine == {r \in tbl : r.project_id = project_id}
    IN  IF project.start_date # Null THEN project.start_date
        ELSE IF mine # {} THEN MinOf({r.created_on : r \in mine})
        ELSE today

\* _build_daily_snapshots
_build_daily_snapshots(snaps, prj, tbl, project_id) ==
    IF \A r \in prj : r.id # project_id THEN snaps
    ELSE CreateRange(snaps, tbl, project_id,
                     BuildStartDate(prj, tbl, project_id), today)

\* a trailing window one day short
UpdateStartDateShort(since_date) ==
    IF since_date = Null THEN today - TrailingDays + 1 ELSE since_date

\* the first date of _update_daily_snapshots
UpdateStartDate(since_date) ==
    IF since_date = Null THEN today - TrailingDays ELSE since_date

\* _update_daily_snapshots
_update_daily_snapshots(snaps, tbl, project_id, since_date) ==
    CreateRange(snaps, tbl, project_id, UpdateStartDate(since_date), today)

\* a watermark taken from the tracker's updated_on
LastUpdatedOn(project_id) ==
    LET mine == {r \in tickets : r.project_id = project_id}
    IN  IF mine = {} THEN Null ELSE MaxOf({r.updated_on : r \in mine})

\* _get_last_update_date
_get_last_update_date(project_id) ==
    LET mine == {r \in tickets : r.project_id = project_id}
    IN  IF mine = {} THEN Null ELSE MaxOf({r.updated_at : r \in mine})

\* _record_scope_change
_record_scope_change(log, project_id, ticket, change_type, delta, old, new) ==
    Append(log, [date |-> today, project_id |-> project_id,
                 ticket_id |-> ticket.id, change_type |-> change_type,
                 hours_delta |-> delta, old_hours |-> old, new_hours |-> new])

\* a detector that drops the log when a ticket's estimate is unchanged
DetectOneForgetful(log, tbl, project_id, ticket) ==
    IF \E r \in tbl : r.id = ticket.id /\ Hours(r.estimated_hours) # Hours(ticket.estimated_hours)
    THEN _record_scope_change(log, project_id, ticket, "modified",
                              Hours(ticket.estimated_hours), 0, Hours(ticket.estimated_hours))
    ELSE <<>>

\* the body of the loop of _detect_scope_changes, for one ticket
DetectOne(log, tbl, project_id, ticket) ==
    IF \E r \in tbl : r.id = ticket.id
    THEN LET existing == CHOOSE r \in tbl : r.id = ticket.id
             old_hours == Hours(existing.estimated_hours)
             new_hours == Hours(ticket.estimated_hours)
         IN  IF old_hours # new_hours
             THEN _record_scope_change(log, project_id, ticket, "modified",
                                       new_hours - old_hours, old_hours, new_hours)
             ELSE log
    ELSE IF ticket.estimated_hours # Null /\ ticket.estimated_hours # 0
         THEN _record_scope_change(log, project_id, ticket, "added",
                                   ticket.estimated_hours, Null,
                                   ticket.estimated_hours)
         ELSE log

RECURSIVE _detect_scope_changes(_, _, _, _)
\* _detect_scope_changes: reads the tickets table as it is when it runs
_detect_scope_changes(log, tbl, project_id, updated_tickets) ==
    IF updated_tickets = <<>> THEN log
    ELSE _detect_scope_changes(
             DetectOne(log, tbl, project_id, Head(updated_tickets)),
             tbl, project_id, Tail(updated_tickets))

\* ------------------------------------------------------ history variables
Range(s) == {s[i] : i \in 1..Len(s)}
SnapshotKeys(project_id, from, to) ==
    {<<project_id, d>> : d \in from..to}

\* the ticket ids a rebuild of (project_id, d) over tbl counts as completed / active
CountedAt(tbl, project_id, d) ==
    LET rows == SnapshotTickets(tbl, project_id, d)
        done == {r \in rows : CompletedAsOf(r, d)}
    IN  [completed |-> {r.id : r \in done}, active |-> {r.id : r \in rows \ done}]

Recount(old, tbl, keys) ==
    [k \in DOMAIN old \cup keys |->
        IF k \in keys THEN CountedAt(tbl, k[1], k[2]) ELSE old[k]]

\* rebuilds since the tickets table last changed, counted up to 2
Rebuilt(old, unchanged, keys) ==
    IF unchanged
    THEN [k \in DOMAIN old \cup keys |->
            IF k \notin keys THEN old[k]
            ELSE IF k \in DOMAIN old THEN 2 ELSE 1]
    ELSE [k \in keys |-> 1]

\* ------------------------------------------------------------------ Init
\* nothing was called, no run is in progress, no database file, no timeline
NoRet == [kind |-> "none"]
\* a call that returns None without raising
Returned == [kind |-> "returned"]
RetIdle == ret = NoRet
RunsIdle == runs = <<>>
DbsIdle == dbs = <<>>
CalcIdle == calc = [op |-> "none"]

\* DataManager(): an empty store, an empty tracker
StoreEmpty ==
    /\ remote = {}
    /\ next_id = 1
    /\ edits = 0
    /\ calls = 0
    /\ projects = {}
    /\ tickets = {}
    /\ daily_snapshots = {}
    /\ scope_changes = <<>>
    /\ versions_cache = {}
    /\ counted = <<>>
    /\ rebuilds = <<>>
    /\ synced = {}
    /\ call = [op |-> "none", project_id |-> 0, incremental |-> FALSE,
               since_date |-> Null, asked_since |-> Null,
               returned |-> <<>>, written |-> {}]

\* ... on day 0
StoreInit == today = 0 /\ StoreEmpty

Init == StoreInit /\ RetIdle /\ RunsIdle /\ DbsIdle /\ CalcIdle

EnvCall == [op |-> "env", project_id |-> 0, incremental |-> FALSE,
            since_date |-> Null, asked_since |-> Null,
            returned |-> <<>>, written |-> {}]

\* ------------------------------------------------------------ environment
\* the calendar advances by one day
Tick ==
    /\ today < MaxDay
    /\ calls < MaxCalls
    /\ today' = today + 1
    /\ call' = EnvCall
    /\ ret' = NoRet
    /\ UNCHANGED <<remote, next_id, edits, calls, store, counted, rebuilds, synced, aux>>

\* a ticket is created on the tracker, open
RemoteCreate(project_id, estimated_hours) ==
    /\ next_id <= MaxTicketId
    /\ edits < MaxEdits
    /\ calls < MaxCalls
    /\ remote' = remote \cup
         {[id |-> next_id, project_id |-> project_id,
           estimated_hours |-> estimated_hours, status_id |-> 1,
           created_on |-> today, updated_on |-> today]}
    /\ next_id' = next_id + 1
    /\ edits' = edits + 1
    /\ call' = EnvCall
    /\ ret' = NoRet
    /\ UNCHANGED <<today, calls, store, counted, rebuilds, synced, aux>>

\* a ticket's estimate is edited on the tracker
RemoteSetEstimate(id, estimated_hours) ==
    /\ edits < MaxEdits
    /\ calls < MaxCalls
    /\ \E i \in remote :
         /\ i.id = id
         /\ i.estimated_hours # estimated_hours
         /\ remote' = (remote \ {i}) \cup
              {[i EXCEPT !.estimated_hours = estimated_hours,
                         !.updated_on = today]}
    /\ edits' = edits + 1
    /\ call' = EnvCall
    /\ ret' = NoRet
    /\ UNCHANGED <<today, next_id, calls, store, counted, rebuilds, synced, aux>>

\* a ticket's status is edited on the tracker
RemoteSetStatus(id, status_id) ==
    /\ edits < MaxEdits
    /\ calls < MaxCalls
    /\ \E i \in remote :
         /\ i.id = id
         /\ i.status_id # status_id
         /\ remote' = (remote \ {i}) \cup
              {[i EXCEPT !.status_id = status_id, !.updated_on = today]}
    /\ edits' = edits + 1
    /\ call' = EnvCall
    /\ ret' = NoRet
    /\ UNCHANGED <<today, next_id, calls, store, counted, rebuilds, synced, aux>>

\* ------------------------------------------------------------ operations
\* DataManager.sync_project
sync_project(project_id, include_closed, start_date) ==
    LET list == get_project_tickets(project_id, include_closed)
        prj == _save_project(projects, project_id, start_date)
        tbl == _save_tickets(tickets, list)
        from == BuildStartDate(prj, tbl, project_id)
        keys == SnapshotKeys(project_id, from, today)
    IN  /\ calls < MaxCalls
        /\ calls' = calls + 1
        /\ projects' = prj
        /\ tickets' = tbl
        /\ daily_snapshots' =
              _build_daily_snapshots(daily_snapshots, prj, tbl, project_id)
        /\ counted' = Recount(counted, tbl, keys)
        /\ rebuilds' = Rebuilt(rebuilds, tbl = tickets, keys)
        /\ call' = [op |-> "sync_project", project_id |-> project_id,
                    incremental |-> FALSE, since_date |-> Null,
                    asked_since |-> Null, returned |-> list, written |-> keys]
        /\ versions_cache' = versions_cache \cup {project_id}
        /\ synced' = synced \cup {project_id}
        /\ ret' = Returned
        /\ UNCHANGED <<today, remote, next_id, edits, scope_changes, aux>>

\* no test of the list
HasUpdatesAlways(updated_tickets) == TRUE

\* fetch_project_updates: "if updated_tickets:"
HasUpdates(updated_tickets) == updated_tickets # <<>>

\* DataManager.fetch_project_updates
fetch_project_updates(project_id, incremental, since_arg) ==
    LET since_date == IF incremental /\ since_arg = Null
                      THEN _get_last_update_date(project_id)
                      ELSE since_arg
        updated_tickets == get_updated_tickets(project_id, since_date)
        tbl == _save_tickets(tickets, updated_tickets)
        keys == SnapshotKeys(project_id, UpdateStartDate(since_date), today)
    IN  /\ calls < MaxCalls
        /\ calls' = calls + 1
        /\ IF HasUpdates(updated_tickets)
           THEN /\ tickets' = tbl
                /\ scope_changes' =
                     _detect_scope_changes(scope_changes, tbl, project_id,
                                           updated_tickets)
                /\ daily_snapshots' =
                     _update_daily_snapshots(daily_snapshots, tbl, project_id,
                                             since_date)
                /\ counted' = Recount(counted, tbl, keys)
                /\ rebuilds' = Rebuilt(rebuilds, tbl = tickets, keys)
           ELSE UNCHANGED <<tickets, scope_changes, daily_snapshots, counted,
                            rebuilds>>
        /\ call' = [op |-> "fetch_project_updates", project_id |-> project_id,
                    incremental |-> incremental, since_date |-> since_arg,
                    asked_since |-> since_date, returned |-> updated_tickets,
                    written |-> IF HasUpdates(updated_tickets) THEN keys ELSE {}]
        /\ ret' = Returned
        /\ UNCHANGED <<today, remote, next_id, edits, projects, versions_cache, synced, aux>>

Next ==
    \/ Tick
    \/ \E p \in ProjectIds, h \in Estimates : RemoteCreate(p, h)
    \/ \E id \in TicketIds, h \in Estimates : RemoteSetEstimate(id, h)
    \/ \E id \in TicketIds, s \in StatusIds : RemoteSetStatus(id, s)
    \/ \E p \in ProjectIds, c \in BOOLEAN, sd \in StartDates :
          sync_project(p, c, sd)
    \/ \E p \in ProjectIds, inc \in BOOLEAN, since \in SinceDates :
          fetch_project_updates(p, inc, since)

Spec == Init /\ [][Next]_vars

TypeOK == today \in Days

\* ================================================================ claims
\* the step just taken was a call of the named operation
Called(op) == calls' # calls /\ call'.op = op
\* the scope-change rows a step has inserted
NewEvents == {scope_changes'[k] : k \in (Len(scope_changes) + 1)..Len(scope_changes')}
\* the rows of a snapshot table with a given key
RowsOf(snaps, project_id, d) ==
    {r \in snaps : r.project_id = project_id /\ r.date = d}

\* C1: a fetch_project_updates that returns a ticket persisted before the call
\* with another estimate (null as 0) records exactly one `modified` event for
\* it, with old_hours the value persisted before the call, new_hours the
\* fetched value and hours_delta = new - old.
C1_ModifiedAgainstPreUpdate ==
    [][Called("fetch_project_updates") =>
        \A i \in Range(call'.returned) : \A r \in tickets :
            (r.id = i.id /\ Hours(r.estimated_hours) # Hours(i.estimated_hours))
            => /\ Cardinality({e \in NewEvents : e.ticket_id = i.id}) = 1
               /\ \A e \in NewEvents : e.ticket_id = i.id =>
                    /\ e.change_type = "modified"
                    /\ e.old_hours = Hours(r.estimated_hours)
                    /\ e.new_hours = Hours(i.estimated_hours)
                    /\ e.hours_delta = e.new_hours - e.old_hours]_vars

\* C2: a fetch_project_updates that returns a ticket with no persisted record
\* before the call records exactly one `added` event for it, with
\* hours_delta = new_hours = the fetched estimate, when that estimate is neither
\* null nor 0, and no event when it is null or 0.
C2_AddedForNewTicket ==
    [][Called("fetch_project_updates") =>
        \A i \in Range(call'.returned) :
            (\A r \in tickets : r.id # i.id) =>
                IF i.estimated_hours # Null /\ i.estimated_hours # 0
                THEN /\ Cardinality({e \in NewEvents : e.ticket_id = i.id}) = 1
                     /\ \A e \in NewEvents : e.ticket_id = i.id =>
                          /\ e.change_type = "added"
                          /\ e.hours_delta = i.estimated_hours
                          /\ e.new_hours = i.estimated_hours
                ELSE \A e \in NewEvents : e.ticket_id # i.id]_vars

\* C3: every persisted ticket with a completion date c is counted as completed
\* in every persisted snapshot of its project dated d >= c, and as active in
\* every one dated d < c (d on or after the ticket's creation date).
C3_MonotonicCompletion ==
    \A r \in tickets : \A s \in daily_snapshots :
        (/\ r.completed_on # Null
         /\ s.project_id = r.project_id
         /\ s.date >= r.created_on)
        => IF s.date >= r.completed_on
           THEN r.id \in counted[<<s.project_id, s.date>>].completed
           ELSE r.id \in counted[<<s.project_id, s.date>>].active

\* C4: every persisted snapshot row has remaining_hours = total_estimated_hours
\* - completed_hours and remaining_hours >= 0.
C4_RemainingInvariant ==
    \A s \in daily_snapshots :
        /\ s.remaining_hours = s.total_estimated_hours - s.completed_hours
        /\ s.remaining_hours >= 0

\* a snapshot in which part of the total is completed and part is remaining
C4_Witness ==
    \E s \in daily_snapshots : s.completed_hours > 0 /\ s.remaining_hours > 0

\* ---- what the claims expect, stated over the tables
RECURSIVE SumIds(_, _)
SumIds(f, n) == IF n = 0 THEN 0 ELSE f[n] + SumIds(f, n - 1)

\* ticket id is persisted in tbl for project_id and was created on or before d
Qualifies(tbl, id, project_id, d) ==
    \E r \in tbl : r.id = id /\ r.project_id = project_id /\ r.created_on <= d
\* ... and its completion date is on or before d
DoneBy(tbl, id, project_id, d) ==
    \E r \in tbl : /\ r.id = id /\ r.project_id = project_id /\ r.created_on <= d
                   /\ r.completed_on # Null /\ r.completed_on <= d
EstimateOf(tbl, id) == Hours((CHOOSE r \in tbl : r.id = id).estimated_hours)

\* the columns of a snapshot row other than the time it was written
Data(r) ==
    [date |-> r.date, project_id |-> r.project_id,
     total_estimated_hours |-> r.total_estimated_hours,
     completed_hours |-> r.completed_hours,
     remaining_hours |-> r.remaining_hours,
     active_ticket_count |-> r.active_ticket_count,
     completed_ticket_count |-> r.completed_ticket_count]

\* the reconstruction of (project_id, d) over the tickets of tbl
Reconstructed(r, tbl) ==
    LET p == r.project_id
        d == r.date
        ids == 1..MaxTicketId
    IN  /\ r.total_estimated_hours =
              SumIds([id \in ids |-> IF Qualifies(tbl, id, p, d)
                                     THEN EstimateOf(tbl, id) ELSE 0], MaxTicketId)
        /\ r.completed_hours =
              SumIds([id \in ids |-> IF DoneBy(tbl, id, p, d)
                                     THEN EstimateOf(tbl, id) ELSE 0], MaxTicketId)
        /\ r.completed_ticket_count =
              Cardinality({id \in ids : DoneBy(tbl, id, p, d)})
        /\ r.active_ticket_count =
              Cardinality({id \in ids : Qualifies(tbl, id, p, d)
                                        /\ ~DoneBy(tbl, id, p, d)})

\* C5 as stated: a rebuild of a (project, date) that was already rebuilt since
\* the persisted tickets last changed leaves exactly one row for it, identical
\* to the row that was there.
C5_RebuildIdentical ==
    [][(calls' # calls /\ tickets' = tickets) =>
        \A k \in call'.written \cap DOMAIN rebuilds :
            /\ Cardinality(RowsOf(daily_snapshots', k[1], k[2])) = 1
            /\ RowsOf(daily_snapshots', k[1], k[2])
                 = RowsOf(daily_snapshots, k[1], k[2])]_vars

\* C5, amended: a rebuild of a (project, date) that was already rebuilt since
\* the persisted tickets last changed leaves exactly one row for it, identical
\* to the row that was there in every column but the time of writing.
C5_RebuildIdempotent ==
    [][(calls' # calls /\ tickets' = tickets) =>
        \A k \in call'.written \cap DOMAIN rebuilds :
            /\ Cardinality(RowsOf(daily_snapshots', k[1], k[2])) = 1
            /\ {Data(r) : r \in RowsOf(daily_snapshots', k[1], k[2])}
                 = {Data(r) : r \in RowsOf(daily_snapshots, k[1], k[2])}]_vars

\* a snapshot with hours in it was rebuilt twice from the same tickets
C5_Witness ==
    \E k \in DOMAIN rebuilds :
        /\ rebuilds[k] = 2
        /\ \E r \in RowsOf(daily_snapshots, k[1], k[2]) : r.total_estimated_hours > 0

\* C6: the snapshot written for (p, d) has total_estimated_hours = the sum of
\* the estimates (null as 0) of the persisted tickets of p created on or before
\* d, completed_hours = the part of that sum of the tickets completed on or
\* before d, completed_ticket_count = their number and active_ticket_count =
\* the number of the other qualifying tickets.
C6_Reconstruction ==
    \A k \in call.written :
        /\ RowsOf(daily_snapshots, k[1], k[2]) # {}
        /\ \A r \in RowsOf(daily_snapshots, k[1], k[2]) : Reconstructed(r, tickets)

\* a written snapshot holds completed hours and nothing of the estimated
\* ticket persisted for another project
C6_Witness ==
    \E k \in call.written : \E r \in RowsOf(daily_snapshots, k[1], k[2]) :
        /\ r.completed_hours > 0
        /\ r.total_estimated_hours = r.completed_hours
        /\ \E t \in tickets : t.project_id # k[1] /\ Hours(t.estimated_hours) > 0

\* C7: a fetch_project_updates whose adapter call returns no ticket changes
\* nothing in the store: no ticket, snapshot or scope-change row is written.
C7_NoUpdatesNoWrites ==
    [][(Called("fetch_project_updates") /\ call'.returned = <<>>)
        => UNCHANGED store]_vars

\* a fetch returned no ticket on a day for which the project has no snapshot
C7_Witness ==
    /\ call.op = "fetch_project_updates"
    /\ call.returned = <<>>
    /\ tickets # {}
    /\ RowsOf(daily_snapshots, call.project_id, today) = {}

\* the first date sync_project is to cover
ExpectedStart(project_id) ==
    LET created == {r.created_on : r \in {t \in tickets : t.project_id = project_id}}
        set == {r.start_date : r \in {q \in projects : q.id = project_id}} \ {Null}
    IN  IF set # {} THEN MinOf(set)
        ELSE IF created # {} THEN MinOf(created) ELSE today

\* C8: after sync_project there is one snapshot row for every date from the
\* start date (the project's, else the earliest creation date of its persisted
\* tickets, else today) through today, each written by this sync from the
\* persisted tickets.
C8_SyncCoversRange ==
    call.op = "sync_project" =>
        \A d \in ExpectedStart(call.project_id)..today :
            /\ Cardinality(RowsOf(daily_snapshots, call.project_id, d)) = 1
            /\ \A r \in RowsOf(daily_snapshots, call.project_id, d) :
                  r.updated_at = today /\ Reconstructed(r, tickets)

\* a sync of a project without start date whose tickets began before today
C8_Witness ==
    /\ call.op = "sync_project"
    /\ \E q \in projects : q.id = call.project_id /\ q.start_date = Null
    /\ ExpectedStart(call.project_id) < today
    /\ \E r \in RowsOf(daily_snapshots, call.project_id, today) :
          r.total_estimated_hours > 0

\* a fetch that received tickets rewrites the snapshots of project_id dated
\* from..today and no other row
RewritesExactly(project_id, from) ==
    /\ \A d \in from..today' :
          /\ Cardinality(RowsOf(daily_snapshots', project_id, d)) = 1
          /\ \A r \in RowsOf(daily_snapshots', project_id, d) :
                r.updated_at = today' /\ Reconstructed(r, tickets')
    /\ {r \in daily_snapshots' :
            ~(r.project_id = project_id /\ r.date \in from..today')}
         = {r \in daily_snapshots :
            ~(r.project_id = project_id /\ r.date \in from..today')}

\* the latest date a ticket of the project was written to the store
LastWritten(project_id) ==
    MaxOf({r.updated_at : r \in {t \in tickets : t.project_id = project_id}})

\* C9 as stated: a fetch_project_updates that receives tickets rewrites the
\* snapshots from s through today and no other, s being the caller's sinceDate,
\* or today - 7 when the caller gave none.
C9_WindowSinceOrSevenDays ==
    [][(Called("fetch_project_updates") /\ call'.returned # <<>>) =>
        RewritesExactly(call'.project_id,
            IF call'.since_date # Null THEN call'.since_date
            ELSE today - 7)]_vars

\* C9, amended: s is the caller's sinceDate; when the caller gave none, s is
\* the date of the latest write of a ticket of the project if the call is
\* incremental and the project has persisted tickets, and today - 7 otherwise.
C9_WindowSinceWatermarkOrSevenDays ==
    [][(Called("fetch_project_updates") /\ call'.returned # <<>>) =>
        RewritesExactly(call'.project_id,
            IF call'.since_date # Null THEN call'.since_date
            ELSE IF call'.incremental
                    /\ \E t \in tickets : t.project_id = call'.project_id
                 THEN LastWritten(call'.project_id)
                 ELSE today - 7)]_vars

\* an incremental fetch without sinceDate rewrote the snapshots from the
\* watermark, an earlier day, through today, and not the one of 7 days ago
C9_Witness ==
    /\ call.op = "fetch_project_updates"
    /\ call.incremental /\ call.since_date = Null
    /\ call.asked_since # Null /\ call.asked_since < today
    /\ call.written = SnapshotKeys(call.project_id, call.asked_since, today)
    /\ RowsOf(daily_snapshots, call.project_id, today - TrailingDays) = {}

SyncSteps ==
    <<"get_project_data", "_save_project", "get_project_versions",
      "_save_project_versions", "get_project_tickets", "_save_tickets",
      "_build_daily_snapshots">>
StepNo(step) == CHOOSE n \in 1..Len(SyncSteps) : SyncSteps[n] = step

\* a failing step whose own write is kept
RanThrough(step, fail_at) == StepNo(step) <= StepNo(fail_at)

\* the step has completed when the run fails at fail_at: an exception leaves
\* the try block, so only the steps before the failing one have run
Ran(step, fail_at) == StepNo(step) < StepNo(fail_at)

\* the failure of a step, as sync_project raises it
SyncError(step, day) ==
    [kind |-> "raised", error |-> "DataManagerError", cause |-> step, at |-> day]

\* DataManager.sync_project when the adapter call or store write `fail_at`
\* fails; a failing _build_daily_snapshots fails at the snapshot of fail_day
sync_project_fails(project_id, include_closed, start_date, fail_at, fail_day) ==
    LET list == get_project_tickets(project_id, include_closed)
        prj == IF Ran("_save_project", fail_at)
               THEN _save_project(projects, project_id, start_date) ELSE projects
        tbl == IF Ran("_save_tickets", fail_at)
               THEN _save_tickets(tickets, list) ELSE tickets
        from == BuildStartDate(prj, tbl, project_id)
        keys == IF fail_at = "_build_daily_snapshots"
                THEN SnapshotKeys(project_id, from, fail_day - 1) ELSE {}
    IN  /\ calls < MaxCalls
        /\ fail_at = "_build_daily_snapshots" => fail_day \in from..today
        /\ fail_at # "_build_daily_snapshots" => fail_day = Null
        /\ calls' = calls + 1
        /\ projects' = prj
        /\ versions_cache' = IF Ran("_save_project_versions", fail_at)
                             THEN versions_cache \cup {project_id}
                             ELSE versions_cache
        /\ tickets' = tbl
        /\ daily_snapshots' =
              IF fail_at = "_build_daily_snapshots"
              THEN CreateRange(daily_snapshots, tbl, project_id, from, fail_day - 1)
              ELSE daily_snapshots
        /\ counted' = Recount(counted, tbl, keys)
        /\ rebuilds' = IF tbl = tickets /\ keys = {} THEN rebuilds
                       ELSE Rebuilt(rebuilds, tbl = tickets, keys)
        /\ call' = [op |-> "sync_project", project_id |-> project_id,
                    incremental |-> FALSE, since_date |-> Null,
                    asked_since |-> Null,
                    returned |-> IF Ran("get_project_tickets", fail_at)
                                 THEN list ELSE <<>>,
                    written |-> keys]
        /\ ret' = SyncError(fail_at, fail_day)
        /\ UNCHANGED <<today, remote, next_id, edits, scope_changes, synced, aux>>

RECURSIVE OrderByDate(_)
\* ORDER BY date over rows with distinct dates
OrderByDate(S) ==
    IF S = {} THEN <<>>
    ELSE LET r == CHOOSE x \in S : \A y \in S : x.date <= y.date
         IN  <<r>> \o OrderByDate(S \ {r})

\* _get_project
_get_project(project_id) == {r \in projects : r.id = project_id}

\* _get_daily_snapshots: UNIQUE(date, project_id) keeps the dates distinct
_get_daily_snapshots(project_id) ==
    OrderByDate({r \in daily_snapshots : r.project_id = project_id})

IsOfProject(project_id, e) == e.project_id = project_id
IsOfOtherProject(project_id, e) == e.project_id # project_id

\* _get_scope_changes: ORDER BY date; rows are inserted with date = today,
\* which never decreases, so insertion order is date order
_get_scope_changes(project_id) ==
    SelectSeq(scope_changes, LAMBDA e : IsOfProject(project_id, e))

\* a timeline for every project, persisted or not
TimelineOfAny(project_id) ==
    [kind |-> "returned", found |-> TRUE,
     project |-> _get_project(project_id),
     snapshots |-> _get_daily_snapshots(project_id),
     scope_changes |-> _get_scope_changes(project_id)]

\* what get_project_timeline returns: None when there is no project row
Timeline(project_id) ==
    IF _get_project(project_id) = {}
    THEN [kind |-> "returned", found |-> FALSE, project |-> {},
          snapshots |-> <<>>, scope_changes |-> <<>>]
    ELSE [kind |-> "returned", found |-> TRUE,
          project |-> _get_project(project_id),
          snapshots |-> _get_daily_snapshots(project_id),
          scope_changes |-> _get_scope_changes(project_id)]

\* DataManager.get_project_timeline: reads only
get_project_timeline(project_id) ==
    /\ ret' = Timeline(project_id)
    /\ call' = [op |-> "get_project_timeline", project_id |-> project_id,
                incremental |-> FALSE, since_date |-> Null,
                asked_since |-> Null, returned |-> <<>>, written |-> {}]
    /\ UNCHANGED <<today, remote, next_id, edits, calls, store, counted, rebuilds,
                   synced, aux>>

\* a DELETE without its WHERE clause
DeleteAll(table, project_id) == {}

\* DELETE FROM <table> WHERE project_id = ?
DeleteWhereProject(table, project_id) ==
    {r \in table : r.project_id # project_id}

\* DataManager.clear_project_cache: four DELETEs in one transaction; the file
\* it unlinks, project_<id>.json, is not the versions cache file
clear_project_cache(project_id) ==
    LET gone == {<<r.project_id, r.date>> :
                    r \in {x \in daily_snapshots : x.project_id = project_id}}
    IN  /\ scope_changes' =
              SelectSeq(scope_changes, LAMBDA e : IsOfOtherProject(project_id, e))
        /\ daily_snapshots' = DeleteWhereProject(daily_snapshots, project_id)
        /\ tickets' = DeleteWhereProject(tickets, project_id)
        /\ projects' = {r \in projects : r.id # project_id}
        /\ counted' = [k \in {x \in DOMAIN counted : x[1] # project_id} |-> counted[k]]
        /\ rebuilds' = [k \in {x \in DOMAIN rebuilds : x[1] # project_id} |-> rebuilds[k]]
        /\ synced' = synced \ {project_id}
        /\ ret' = Returned
        /\ call' = [op |-> "clear_project_cache", project_id |-> project_id,
                    incremental |-> FALSE, since_date |-> Null,
                    asked_since |-> Null, returned |-> <<>>, written |-> gone]
        /\ UNCHANGED <<today, remote, next_id, edits, calls, versions_cache, aux>>

\* the store operations with their failures, the cache clearing and the
\* timeline retrieval
NextCache ==
    \/ Tick
    \/ \E p \in ProjectIds, h \in {1} : RemoteCreate(p, h)
    \/ \E id \in TicketIds, st \in StatusIds : RemoteSetStatus(id, st)
    \/ \E p \in ProjectIds, sd \in {Null, 0} : sync_project(p, TRUE, sd)
    \/ \E p \in ProjectIds, sd \in {Null, 0}, step \in Range(SyncSteps),
          d \in {Null} \cup Days : sync_project_fails(p, TRUE, sd, step, d)
    \/ \E p \in ProjectIds : get_project_timeline(p)
    \/ \E p \in ProjectIds : clear_project_cache(p)

SpecCache == Init /\ [][NextCache]_vars

\* the step just taken was the named operation
Did(op) == call'.op = op
Ids(table) == {r.id : r \in table}
OfOthers(table, project_id) == {r \in table : r.project_id # project_id}

\* C11: a sync_project in which an adapter call or a store write fails ends
\* with DataManagerError carrying the cause, and no later step has run: the
\* writes of the failing step and of the steps after it are absent, while the
\* project row written before the failing step stays persisted.
C11_FailureKeepsEarlierSteps ==
    [][(Called("sync_project") /\ ret'.kind = "raised") =>
        LET p == call'.project_id
            c == ret'.cause
        IN  /\ ret'.error = "DataManagerError"
            /\ c \in Range(SyncSteps)
            /\ scope_changes' = scope_changes
            /\ {r \in projects' : r.id # p} = {r \in projects : r.id # p}
            /\ IF c \in {"get_project_data", "_save_project"}
               THEN projects' = projects
               ELSE p \in Ids(projects')
            /\ c \in {"get_project_data", "_save_project", "get_project_versions",
                      "_save_project_versions"}
                 => versions_cache' = versions_cache
            /\ c # "_build_daily_snapshots" =>
                 tickets' = tickets /\ daily_snapshots' = daily_snapshots
            /\ c = "_build_daily_snapshots" =>
                 /\ OfOthers(daily_snapshots', p) = OfOthers(daily_snapshots, p)
                 /\ \A d \in ret'.at..today :
                      RowsOf(daily_snapshots', p, d) = RowsOf(daily_snapshots, p, d)
        ]_vars

\* the ticket write of a first sync failed: the project row is persisted, none
\* of the project's tickets is
C11_Witness ==
    /\ call.op = "sync_project"
    /\ ret.kind = "raised" /\ ret.cause = "_save_tickets"
    /\ call.project_id \in Ids(projects)
    /\ call.project_id \notin synced
    /\ \E i \in remote : i.project_id = call.project_id
    /\ \A t \in tickets : t.project_id # call.project_id

\* what a timeline that is present holds: the project row, every snapshot of
\* the project in ascending date order, every scope change of the project in
\* date order
TimelineComplete(t, p) ==
    /\ t.project = {r \in projects' : r.id = p}
    /\ Len(t.snapshots) = Cardinality({r \in daily_snapshots' : r.project_id = p})
    /\ Range(t.snapshots) = {r \in daily_snapshots' : r.project_id = p}
    /\ \A i, j \in 1..Len(t.snapshots) :
          i < j => t.snapshots[i].date < t.snapshots[j].date
    /\ Len(t.scope_changes) =
          Cardinality({k \in 1..Len(scope_changes') : scope_changes'[k].project_id = p})
    /\ \A e \in Range(t.scope_changes) : e.project_id = p
    /\ \A i, j \in 1..Len(t.scope_changes) :
          i < j => t.scope_changes[i].date <= t.scope_changes[j].date

\* C12 as stated: get_project_timeline(p) returns None exactly when no project
\* row is persisted for p, in particular whenever no sync_project(p) has
\* returned successfully since the store was created or p was last cleared;
\* otherwise it returns the project row, all snapshots and all scope changes of
\* p in date order.
C12_AbsentBeforeFirstSuccessfulSync ==
    [][Did("get_project_timeline") =>
        LET p == call'.project_id
        IN  /\ ret'.kind = "returned"
            /\ ~ret'.found <=> p \notin Ids(projects')
            /\ p \notin synced' => ~ret'.found
            /\ ret'.found => TimelineComplete(ret', p)]_vars

\* C12, amended: None exactly when no project row is persisted for p; a
\* project row appears only in a sync_project(p) that got past _save_project,
\* whether it then succeeded or failed, and disappears only in
\* clear_project_cache(p).
C12_AbsentIffNoProjectRow ==
    [][/\ Did("get_project_timeline") =>
            LET p == call'.project_id
            IN  /\ ret'.kind = "returned"
                /\ ~ret'.found <=> p \notin Ids(projects')
                /\ ret'.found => TimelineComplete(ret', p)
       /\ \A p \in ProjectIds :
            /\ (p \in Ids(projects') /\ p \notin Ids(projects)) =>
                  /\ Called("sync_project") /\ call'.project_id = p
                  /\ ret'.kind = "raised" =>
                        ret'.cause \notin {"get_project_data", "_save_project"}
            /\ (p \in Ids(projects) /\ p \notin Ids(projects')) =>
                  Did("clear_project_cache") /\ call'.project_id = p
      ]_vars

\* a timeline with a snapshot was returned for a project none of whose syncs
\* has succeeded
C12_Witness ==
    /\ call.op = "get_project_timeline"
    /\ ret.found
    /\ call.project_id \notin synced
    /\ Len(ret.snapshots) >= 1

\* C13: clear_project_cache(p) leaves no project row, ticket, snapshot or
\* scope change of p, and leaves every row of every other project as it was.
C13_ClearRemovesOnlyProject ==
    [][Did("clear_project_cache") =>
        LET p == call'.project_id
        IN  /\ p \notin Ids(projects')
            /\ \A r \in tickets' : r.project_id # p
            /\ \A r \in daily_snapshots' : r.project_id # p
            /\ \A e \in Range(scope_changes') : e.project_id # p
            /\ {r \in projects' : r.id # p} = {r \in projects : r.id # p}
            /\ tickets' = OfOthers(tickets, p)
            /\ daily_snapshots' = OfOthers(daily_snapshots, p)
            /\ scope_changes' =
                 SelectSeq(scope_changes, LAMBDA e : e.project_id # p)]_vars

\* a project with snapshots was cleared while another project has a project
\* row, tickets and snapshots
C13_Witness ==
    /\ call.op = "clear_project_cache"
    /\ call.written # {}
    /\ \E q \in projects : q.id # call.project_id
    /\ \E t \in tickets : t.project_id # call.project_id
    /\ \E r \in daily_snapshots : r.project_id # call.project_id

\* ========================================== runs that share the store file
\* Two invocations of the tool work on the same SQLite file.  Each statement
\* that commits is one step: _save_tickets (one executemany transaction), the
\* SELECT of _create_daily_snapshot (run outside a transaction) and its INSERT
\* OR REPLACE (committed on its own).
Runs == 1..MaxCalls
\* the project both runs synchronise, and the sinceDate of the fetching run
RunProject == 1
RunSince == 0

IdleRun == [op |-> "none", pc |-> "idle", list |-> <<>>, cur |-> Null,
            end |-> Null, rows |-> {}]

\* "while current_date <= end_date" is over
LoopDone(cur, end) == cur > end

\* a run may start: under external serialisation only when no other run is
\* between its first and its last step
CanStart(w) ==
    /\ runs.run[w].pc = "idle"
    /\ w = calls + 1
    /\ calls < MaxCalls
    /\ runs.serial => \A v \in Runs : runs.run[v].pc \in {"idle", "done"}

RunStep == [EnvCall EXCEPT !.op = "run"]
RunFrame == UNCHANGED <<today, remote, next_id, edits, counted, rebuilds, dbs, calc>>

\* sync_project up to the adapter's ticket list: _save_project, the versions
\* cache, get_project_tickets
StartSync(w) ==
    /\ CanStart(w)
    /\ calls' = calls + 1
    /\ projects' = _save_project(projects, RunProject, runs.start_date)
    /\ versions_cache' = versions_cache \cup {RunProject}
    /\ runs' = [runs EXCEPT !.run[w] =
                  [IdleRun EXCEPT !.op = "sync_project", !.pc = "save",
                                  !.list = get_project_tickets(RunProject, TRUE)]]
    /\ call' = RunStep /\ ret' = NoRet
    /\ UNCHANGED <<tickets, daily_snapshots, scope_changes, synced>>
    /\ RunFrame

\* fetch_project_updates up to the adapter's ticket list
StartFetch(w) ==
    LET updated_tickets == get_updated_tickets(RunProject, RunSince)
    IN  /\ CanStart(w)
        /\ calls' = calls + 1
        /\ runs' = [runs EXCEPT !.run[w] =
                      [IdleRun EXCEPT !.op = "fetch_project_updates",
                                      !.pc = IF HasUpdates(updated_tickets)
                                             THEN "save" ELSE "done",
                                      !.list = updated_tickets]]
        /\ call' = RunStep /\ ret' = NoRet
        /\ UNCHANGED <<store, synced>>
        /\ RunFrame

\* _save_tickets
RunSave(w) ==
    /\ runs.run[w].pc = "save"
    /\ tickets' = _save_tickets(tickets, runs.run[w].list)
    /\ runs' = [runs EXCEPT !.run[w].pc =
                  IF runs.run[w].op = "sync_project" THEN "range" ELSE "detect"]
    /\ call' = RunStep /\ ret' = NoRet
    /\ UNCHANGED <<calls, projects, daily_snapshots, scope_changes, versions_cache,
                   synced>>
    /\ RunFrame

\* _detect_scope_changes, over the tickets table as it is now
RunDetect(w) ==
    /\ runs.run[w].pc = "detect"
    /\ scope_changes' = _detect_scope_changes(scope_changes, tickets, RunProject,
                                             runs.run[w].list)
    /\ runs' = [runs EXCEPT !.run[w].pc = "range"]
    /\ call' = RunStep /\ ret' = NoRet
    /\ UNCHANGED <<calls, projects, tickets, daily_snapshots, versions_cache, synced>>
    /\ RunFrame

\* the first and last date of _build_daily_snapshots / _update_daily_snapshots
RunRange(w) ==
    LET r == runs.run[w]
        missing == r.op = "sync_project" /\ _get_project(RunProject) = {}
        from == IF r.op = "sync_project"
                THEN BuildStartDate(projects, tickets, RunProject)
                ELSE UpdateStartDate(RunSince)
    IN  /\ r.pc = "range"
        /\ runs' = [runs EXCEPT !.run[w] =
                      IF missing \/ LoopDone(from, today)
                      THEN [r EXCEPT !.pc = "done"]
                      ELSE [r EXCEPT !.pc = "read", !.cur = from, !.end = today]]
        /\ synced' = IF r.op = "sync_project" /\ (missing \/ LoopDone(from, today))
                     THEN synced \cup {RunProject} ELSE synced
        /\ call' = RunStep /\ ret' = NoRet
        /\ UNCHANGED <<calls, store>>
        /\ RunFrame

\* the SELECT of _create_daily_snapshot
RunRead(w) ==
    /\ runs.run[w].pc = "read"
    /\ runs' = [runs EXCEPT !.run[w].pc = "write",
                            !.run[w].rows =
                               SnapshotTickets(tickets, RunProject, runs.run[w].cur)]
    /\ call' = RunStep /\ ret' = NoRet
    /\ UNCHANGED <<calls, store, synced>>
    /\ RunFrame

\* the INSERT OR REPLACE of _create_daily_snapshot, from the rows selected
RunWrite(w) ==
    LET r == runs.run[w]
        last == LoopDone(r.cur + 1, r.end)
    IN  /\ r.pc = "write"
        /\ daily_snapshots' =
              InsertOrReplaceSnapshot(daily_snapshots,
                                      SnapshotRow(r.rows, RunProject, r.cur))
        /\ runs' = [runs EXCEPT !.run[w] =
                      IF last THEN [r EXCEPT !.pc = "done", !.rows = {}]
                      ELSE [r EXCEPT !.pc = "read", !.cur = r.cur + 1, !.rows = {}]]
        /\ synced' = IF last /\ r.op = "sync_project"
                     THEN synced \cup {RunProject} ELSE synced
        /\ call' = RunStep /\ ret' = NoRet
        /\ UNCHANGED <<calls, projects, tickets, scope_changes, versions_cache>>
        /\ RunFrame

\* the runs are serialised by the caller or not; the project's start date on
\* the tracker is the same for both
InitRuns ==
    /\ StoreInit /\ RetIdle /\ DbsIdle /\ CalcIdle
    /\ \E b \in BOOLEAN, sd \in {Null, 0} :
          runs = [serial |-> b, start_date |-> sd, run |-> [w \in Runs |-> IdleRun]]

NextRuns ==
    \/ Tick
    \/ \E h \in {1} : RemoteCreate(RunProject, h)
    \/ \E id \in TicketIds, h \in Estimates : RemoteSetEstimate(id, h)
    \/ \E w \in Runs : StartSync(w)
    \/ \E w \in Runs : StartFetch(w)
    \/ \E w \in Runs : RunSave(w)
    \/ \E w \in Runs : RunDetect(w)
    \/ \E w \in Runs : RunRange(w)
    \/ \E w \in Runs : RunRead(w)
    \/ \E w \in Runs : RunWrite(w)

SpecRuns == InitRuns /\ [][NextRuns]_vars

AllDone == \A w \in Runs : runs.run[w].pc = "done"
BothSync == \A w \in Runs : runs.run[w].op = "sync_project"

\* C14: no step of a sync_project or fetch_project_updates run changes or
\* removes a scope-change event recorded earlier: the log after the step
\* begins with the log before it, event for event.
C14_EventsAppendOnly ==
    [][\A i \in 1..Len(scope_changes) :
          /\ i <= Len(scope_changes')
          /\ scope_changes'[i] = scope_changes[i]]_vars

\* an event was recorded by a fetch whose snapshot rebuild, like a whole
\* sync_project, has since run to its end
C14_Witness ==
    /\ AllDone
    /\ Len(scope_changes) >= 1
    /\ \E w \in Runs : runs.run[w].op = "sync_project"
    /\ \E w \in Runs : runs.run[w].op = "fetch_project_updates"

\* C17: when two sync_project runs of the same project are serialised, every
\* snapshot row of the project equals the reconstruction over the persisted
\* tickets once both have finished; when their steps interleave, a state with
\* a row that differs is reachable (C17_Witness).
C17_SerialisedRunsReconstruct ==
    (runs.serial /\ AllDone /\ BothSync) =>
        /\ RowsOf(daily_snapshots, RunProject, today) # {}
        /\ \A r \in daily_snapshots : Reconstructed(r, tickets)

\* two interleaved sync_project runs have finished and a snapshot row differs
\* from the reconstruction over the tickets finally persisted
C17_Witness ==
    /\ ~runs.serial /\ AllDone /\ BothSync
    /\ \E r \in daily_snapshots : ~Reconstructed(r, tickets)

\* ==================================================== database.py: schema
\* DatabaseManager.CURRENT_VERSION
CURRENT_VERSION == 2
\* the database files
Stores == 1..MaxStores

\* getattr(self, "_migrate_to_v<version>", None): the methods the class has
HasMigration(version) == version \in {1, 2}

\* the tables _migrate_to_v1 and _migrate_to_v2 create
MigrationTables(version) ==
    IF version = 1
    THEN {"projects", "tickets", "daily_snapshots", "scope_changes"}
    ELSE IF version = 2 THEN {"ticket_journals"} ELSE {}

RECURSIVE TablesUpTo(_)
TablesUpTo(version) ==
    IF version = 0 THEN {}
    ELSE MigrationTables(version) \cup TablesUpTo(version - 1)

\* _get_current_version: MAX(version), 0 when there is none
_get_current_version(versions) == IF versions = {} THEN 0 ELSE MaxOf(versions)

\* a migration loop that starts over from version 1
FirstMigrationFromScratch(from_version) == 1

\* range(from_version + 1, CURRENT_VERSION + 1)
FirstMigration(from_version) == from_version + 1

\* A connection at work.  tables and versions are committed; ptables and
\* pversions belong to the open transaction.  Python's sqlite3 opens a
\* transaction before an INSERT, not before a CREATE TABLE: DDL issued while
\* no transaction is open is committed at once.
RECURSIVE _run_migrations(_, _, _)
_run_migrations(c, version, current) ==
    IF c.error # "none" \/ version > current THEN c
    ELSE IF ~HasMigration(version)
    THEN [c EXCEPT !.error = "DatabaseError", !.cause = "no migration"]
    ELSE IF MigrationTables(version) \cap (c.tables \cup c.ptables) # {}
    THEN [c EXCEPT !.error = "DatabaseError", !.cause = "table exists"]
    ELSE _run_migrations(
             [c EXCEPT !.tables = IF c.in_tx THEN c.tables
                                  ELSE c.tables \cup MigrationTables(version),
                       !.ptables = IF c.in_tx
                                   THEN c.ptables \cup MigrationTables(version)
                                   ELSE c.ptables,
                       !.pversions = c.pversions \cup {version},
                       !.in_tx = TRUE,
                       !.log = Append(c.log, version)],
             version + 1, current)

\* get_connection around initialize_database: conn.commit() at the end of the
\* block; conn.rollback() on sqlite3.Error and conn.close() on any other
\* exception both discard the open transaction
Connection(db) ==
    [tables |-> db.tables \cup {"schema_version"}, versions |-> db.versions,
     ptables |-> {}, pversions |-> {}, in_tx |-> FALSE, log |-> <<>>,
     error |-> "none", cause |-> "none"]

Close(c, current) ==
    IF c.error = "none"
    THEN [tables |-> c.tables \cup c.ptables, versions |-> c.versions \cup c.pversions,
          log |-> c.log, result |-> "ok", cause |-> "none", called |-> current]
    ELSE [tables |-> c.tables, versions |-> c.versions,
          log |-> c.log, result |-> c.error, cause |-> c.cause, called |-> current]

\* what initialize_database leaves of a store, for a class whose
\* CURRENT_VERSION is `current`
Initialized(db, current) ==
    LET c == Connection(db)
        current_version == _get_current_version(c.versions)
    IN  IF current_version < current
        THEN Close(_run_migrations(c, FirstMigration(current_version), current),
                   current)
        ELSE Close(c, current)

\* a store as the release whose CURRENT_VERSION was v has left it; v = 0 is a
\* file that does not exist yet
StoreAt(v) ==
    [tables |-> IF v = 0 THEN {} ELSE TablesUpTo(v) \cup {"schema_version"},
     versions |-> 1..v, log |-> <<>>, result |-> "none", cause |-> "none",
     called |-> 0]

\* DatabaseManager(db_path).initialize_database()
initialize_database(path, current) ==
    /\ dbs' = [dbs EXCEPT ![path] = Initialized(dbs[path], current)]
    /\ UNCHANGED <<today, remote, next_id, edits, calls, store, counted, rebuilds,
                   synced, call, ret, runs, calc>>

InitMigrate ==
    /\ StoreInit /\ RetIdle /\ RunsIdle /\ CalcIdle
    /\ dbs \in [Stores -> {StoreAt(v) : v \in 0..CURRENT_VERSION}]

NextMigrate == \E path \in Stores : initialize_database(path, CURRENT_VERSION)

SpecMigrate == InitMigrate /\ [][NextMigrate]_vars

\* also a subclass whose CURRENT_VERSION has no migration method
NextMigrateBroken ==
    \E path \in Stores, current \in {CURRENT_VERSION, CURRENT_VERSION + 1} :
        initialize_database(path, current)

SpecMigrateBroken == InitMigrate /\ [][NextMigrateBroken]_vars

Upto(a, b) == [i \in 1..(IF b >= a THEN b - a + 1 ELSE 0) |-> a + i - 1]

C16_FailedMigrationLeavesStoreUnchanged ==
    [][\A path \in Stores :
          (dbs'[path] # dbs[path] /\ dbs'[path].cause = "no migration") =>
              /\ dbs'[path].result = "DatabaseError"
              /\ dbs'[path].versions = dbs[path].versions
              /\ dbs'[path].tables = dbs[path].tables]_vars

\* ============================================== calculator.py: the lines
\* Hours are exact rationals [n, d] here: the code's floats divide the start
\* hours by the number of days once and subtract the quotient day by day.
CalcDays == 0..MaxCalcDay
CalcHours == 0..MaxCalcHours
Frac(n, d) == [n |-> n, d |-> d]
FracEq(a, b) == a.n * b.d = b.n * a.d
\* max(0.0, x)
Max0(x) == IF x.n < 0 THEN Frac(0, x.d) ELSE x

\* date.weekday(): 0 is Monday; day 0 of the calendar is a Wednesday
weekday(d) == (d + 2) % 7
\* holidays.country_holidays("JP"): day 0, a Wednesday, is a public holiday
country_holidays == {0}

\* get_business_days(start_date, end_date), as a set
get_business_days(start_date, end_date) ==
    {d \in start_date..end_date : weekday(d) < 5 /\ d \notin country_holidays}

\* get_business_days_between: len(get_business_days(...)), both ends included
get_business_days_between(start_date, end_date) ==
    Cardinality(get_business_days(start_date, end_date))

\* a lookup that answers 0.0 for a date without snapshot
_get_remaining_hours_or_zero(timeline, target_date) ==
    LET hit == {i \in 1..Len(timeline.snapshots) :
                    timeline.snapshots[i].date = target_date}
    IN  IF hit = {} THEN 0
        ELSE timeline.snapshots[MinOf(hit)].remaining_hours

\* _get_remaining_hours_for_date: the first snapshot of that date, else None
_get_remaining_hours_for_date(timeline, target_date) ==
    LET hit == {i \in 1..Len(timeline.snapshots) :
                    timeline.snapshots[i].date = target_date}
    IN  IF hit = {} THEN Null
        ELSE timeline.snapshots[MinOf(hit)].remaining_hours

RECURSIVE IdealLoop(_, _, _, _, _, _)
\* the while loop of calculate_ideal_line; k daily decrements made so far
IdealLoop(current_date, end_date, k, start_hours, total_days, exclude_weekends) ==
    IF current_date > end_date THEN <<>>
    ELSE <<[date |-> current_date,
            hours |-> Max0(Frac(start_hours * (total_days - k), total_days))]>>
         \o IdealLoop(current_date + 1, end_date,
                      IF ~exclude_weekends \/ weekday(current_date + 1) < 5
                      THEN k + 1 ELSE k,
                      start_hours, total_days, exclude_weekends)

\* BurndownCalculator.calculate_ideal_line
calculate_ideal_line(timeline, exclude_weekends, start_from_date) ==
    IF timeline.snapshots = <<>> THEN <<>>
    ELSE
    LET asked == IF start_from_date = Null THEN Null
                 ELSE _get_remaining_hours_for_date(timeline, start_from_date)
        start_hours == IF asked = Null
                       THEN timeline.snapshots[1].total_estimated_hours
                       ELSE asked
        start_date == IF asked = Null THEN timeline.start_date ELSE start_from_date
        end_date == IF timeline.end_date # Null THEN timeline.end_date ELSE today
        total_days == IF exclude_weekends
                      THEN get_business_days_between(start_date, end_date)
                      ELSE end_date - start_date
    IN  IF total_days <= 0
        THEN <<[date |-> start_date, hours |-> Frac(start_hours, 1)],
               [date |-> end_date, hours |-> Frac(0, 1)]>>
        ELSE IdealLoop(start_date, end_date, 0, start_hours, total_days,
                       exclude_weekends)

\* a test that lets a remaining of exactly 0 through
AlreadyDoneStrict(remaining_hours) == remaining_hours < 0

\* calculate_completion_forecast: "if remaining_hours <= 0"
AlreadyDone(remaining_hours) == remaining_hours <= 0

\* a velocity that divides by the number of snapshots
calculate_velocity_per_snapshot(timeline) ==
    LET n == Len(timeline.snapshots)
    IN  IF n < 2 THEN Frac(0, 1)
        ELSE Frac(timeline.snapshots[n].completed_hours
                    - timeline.snapshots[1].completed_hours, n)

\* calculate_velocity, as the pair (completed hours gained, days)
calculate_velocity(timeline) ==
    LET n == Len(timeline.snapshots)
    IN  IF n < 2 THEN Frac(0, 1)
        ELSE Frac(timeline.snapshots[n].completed_hours
                    - timeline.snapshots[1].completed_hours, n - 1)

\* calculate_burn_rate, as the pair (remaining hours burned, days)
calculate_burn_rate(timeline) ==
    LET n == Len(timeline.snapshots)
    IN  IF n < 2 THEN Frac(0, 1)
        ELSE Frac(timeline.snapshots[1].remaining_hours
                    - timeline.snapshots[n].remaining_hours, n - 1)

NoForecast == [forecast_date |-> Null, days_remaining |-> Null, confidence |-> "low"]

\* BurndownCalculator.calculate_completion_forecast; the snapshot windows of
\* 14 days hold every snapshot of a timeline this short
calculate_completion_forecast(timeline) ==
    IF timeline.snapshots = <<>> THEN NoForecast
    ELSE
    LET latest_snapshot == timeline.snapshots[Len(timeline.snapshots)]
        remaining_hours == latest_snapshot.remaining_hours
        velocity == calculate_velocity(timeline)
        \* int(remaining_hours / velocity)
        days_needed == (remaining_hours * velocity.d) \div velocity.n
    IN  IF AlreadyDone(remaining_hours)
        THEN [forecast_date |-> latest_snapshot.date, days_remaining |-> 0,
              confidence |-> "high"]
        ELSE IF velocity.n <= 0 THEN NoForecast
        ELSE [forecast_date |-> latest_snapshot.date + days_needed,
              days_remaining |-> days_needed,
              confidence |-> IF calculate_burn_rate(timeline).n > 0
                             THEN "high" ELSE "medium"]

\* a snapshot of one date, or none for it
SnapshotChoices ==
    {[total |-> Null, completed |-> Null]} \cup
    {x \in [total : CalcHours, completed : CalcHours] : x.completed <= x.total}

\* the snapshots a choice per date stands for, as the store returns them:
\* ordered by date, remaining = total - completed
SnapshotsOf(f) ==
    OrderByDate({[date |-> d, total_estimated_hours |-> f[d].total,
                  completed_hours |-> f[d].completed,
                  remaining_hours |-> f[d].total - f[d].completed] :
                 d \in {x \in CalcDays : f[x].total # Null}})

\* a ProjectTimeline as calculate_project_timeline builds it: its snapshots
\* are those dated from the start date through today
InitCalc ==
    /\ StoreEmpty /\ RetIdle /\ RunsIdle /\ DbsIdle
    /\ today \in CalcDays
    /\ \E f \in [CalcDays -> SnapshotChoices], s \in CalcDays,
          e \in {Null} \cup CalcDays :
          /\ \A d \in CalcDays : f[d].total # Null => s <= d /\ d <= today
          /\ calc = [op |-> "none", exclude_weekends |-> FALSE,
                     start_from_date |-> Null, line |-> <<>>,
                     forecast |-> NoForecast,
                     timeline |-> [start_date |-> s, end_date |-> e,
                                   snapshots |-> SnapshotsOf(f)]]

CalcFrame ==
    UNCHANGED <<today, remote, next_id, edits, calls, store, counted, rebuilds,
                synced, call, ret, runs, dbs>>

IdealLineCalled(exclude_weekends, start_from_date) ==
    /\ calc' = [calc EXCEPT
                  !.op = "calculate_ideal_line",
                  !.exclude_weekends = exclude_weekends,
                  !.start_from_date = start_from_date,
                  !.line = calculate_ideal_line(calc.timeline, exclude_weekends,
                                                start_from_date),
                  !.forecast = NoForecast]
    /\ CalcFrame

ForecastCalled ==
    /\ calc' = [calc EXCEPT
                  !.op = "calculate_completion_forecast",
                  !.exclude_weekends = FALSE, !.start_from_date = Null,
                  !.line = <<>>,
                  !.forecast = calculate_completion_forecast(calc.timeline)]
    /\ CalcFrame

NextCalc ==
    \/ \E w \in BOOLEAN, d \in {Null} \cup CalcDays : IdealLineCalled(w, d)
    \/ ForecastCalled

SpecCalc == InitCalc /\ [][NextCalc]_vars

\* the end date calculate_ideal_line works with
EffectiveEnd == IF calc.timeline.end_date # Null THEN calc.timeline.end_date ELSE today
IsPoint(pt, d, hours) == pt.date = d /\ FracEq(pt.hours, Frac(hours, 1))
SnapshotAt(d) == {i \in 1..Len(calc.timeline.snapshots) : calc.timeline.snapshots[i].date = d}

\* C18: for a timeline with a snapshot whose start date equals its end date,
\* calculate_ideal_line (no start_from_date) returns exactly the two points
\* (start, first snapshot's total hours) and (end, 0), counting calendar days
\* or business days.
C18_DegenerateTwoPoints ==
    (/\ calc.op = "calculate_ideal_line"
     /\ calc.start_from_date = Null
     /\ calc.timeline.snapshots # <<>>
     /\ EffectiveEnd = calc.timeline.start_date)
    => /\ Len(calc.line) = 2
       /\ IsPoint(calc.line[1], calc.timeline.start_date,
                  calc.timeline.snapshots[1].total_estimated_hours)
       /\ IsPoint(calc.line[2], EffectiveEnd, 0)

\* C19: calculate_ideal_line with a start_from_date: when a snapshot of that
\* date exists the line begins at (start_from_date, its remaining hours); when
\* none exists the result is that of the call without start_from_date, which
\* for a timeline with snapshots begins at (timeline start date, first
\* snapshot's total hours).
C19_StartFromDate ==
    (calc.op = "calculate_ideal_line" /\ calc.start_from_date # Null) =>
        IF SnapshotAt(calc.start_from_date) # {}
        THEN /\ calc.line # <<>>
             /\ \E i \in SnapshotAt(calc.start_from_date) :
                   IsPoint(calc.line[1], calc.start_from_date,
                           calc.timeline.snapshots[i].remaining_hours)
        ELSE /\ calc.line = calculate_ideal_line(calc.timeline,
                                                 calc.exclude_weekends, Null)
             /\ calc.timeline.snapshots # <<>> =>
                  /\ calc.line # <<>>
                  /\ IsPoint(calc.line[1], calc.timeline.start_date,
                             calc.timeline.snapshots[1].total_estimated_hours)

\* a line of several points was started from a later snapshot's remaining
\* hours, which differ from the first snapshot's total
C19_Witness ==
    /\ calc.op = "calculate_ideal_line"
    /\ calc.start_from_date # Null
    /\ calc.start_from_date # calc.timeline.start_date
    /\ Len(calc.line) >= 2
    /\ \E i \in SnapshotAt(calc.start_from_date) :
          /\ i > 1
          /\ calc.timeline.snapshots[i].remaining_hours > 0
          /\ calc.timeline.snapshots[i].remaining_hours
               # calc.timeline.snapshots[1].total_estimated_hours

\* C20: for a timeline whose latest snapshot has remaining_hours <= 0,
\* calculate_completion_forecast returns that snapshot's date, 0 days
\* remaining and confidence high, whatever the earlier snapshots are.
C20_ForecastAlreadyDone ==
    (/\ calc.op = "calculate_completion_forecast"
     /\ calc.timeline.snapshots # <<>>
     /\ calc.timeline.snapshots[Len(calc.timeline.snapshots)].remaining_hours <= 0)
    => /\ calc.forecast.forecast_date =
             calc.timeline.snapshots[Len(calc.timeline.snapshots)].date
       /\ calc.forecast.days_remaining = 0
       /\ calc.forecast.confidence = "high"

\* the latest snapshot has nothing remaining although the completed hours
\* fell since the first one, which had hours remaining
C20_Witness ==
    /\ calc.op = "calculate_completion_forecast"
    /\ Len(calc.timeline.snapshots) >= 2
    /\ calc.timeline.snapshots[Len(calc.timeline.snapshots)].remaining_hours = 0
    /\ calc.timeline.snapshots[1].remaining_hours > 0
    /\ calculate_velocity(calc.timeline).n < 0
    /\ calc.forecast.confidence = "high"

\* ------------------------------------------- the calculator and the clock
\* date.today() moves on between two calls on the same ProjectTimeline
CalcTick ==
    /\ today < MaxCalcDay
    /\ today' = today + 1
    /\ UNCHANGED <<remote, next_id, edits, calls, store, counted, rebuilds,
                   synced, call, ret, aux>>

NextCalcDays == NextCalc \/ CalcTick

SpecCalcDays == InitCalc /\ [][NextCalcDays]_vars

SameCall ==
    /\ calc.op # "none"
    /\ calc'.op = calc.op
    /\ calc'.timeline = calc.timeline
    /\ calc'.exclude_weekends = calc.exclude_weekends
    /\ calc'.start_from_date = calc.start_from_date

\* C21: a calculator operation is a function of its timeline and parameters:
\* a call that repeats the previous call's operation, timeline and parameters
\* returns the previous result, whatever the current date is, also for a
\* timeline without end date.
C21_CalculatorIsPure ==
    [][SameCall => calc'.line = calc.line /\ calc'.forecast = calc.forecast]_vars

\* ============================================ a store that was synced before
\* The store as a first sync_project(project, include_closed=True) on day 0
\* leaves it, for tickets created open on the tracker that day.
FirstSyncProject == 1
TrackerOnDayZero ==
    {{[id |-> id, project_id |-> FirstSyncProject, estimated_hours |-> h[id],
       status_id |-> 1, created_on |-> 0, updated_on |-> 0] : id \in 1..n} :
      n \in 1..MaxTicketId, h \in [TicketIds -> Estimates]}

InitSynced ==
    /\ today = 0
    /\ remote \in TrackerOnDayZero
    /\ next_id = Cardinality(remote) + 1
    /\ edits = 0
    /\ calls = 0
    /\ LET list == get_project_tickets(FirstSyncProject, TRUE)
           prj == _save_project({}, FirstSyncProject, Null)
           tbl == _save_tickets({}, list)
           keys == SnapshotKeys(FirstSyncProject,
                                BuildStartDate(prj, tbl, FirstSyncProject), today)
       IN  /\ projects = prj
           /\ tickets = tbl
           /\ daily_snapshots = _build_daily_snapshots({}, prj, tbl, FirstSyncProject)
           /\ counted = Recount(<<>>, tbl, keys)
           /\ rebuilds = Rebuilt(<<>>, FALSE, keys)
           /\ call = [op |-> "sync_project", project_id |-> FirstSyncProject,
                      incremental |-> FALSE, since_date |-> Null,
                      asked_since |-> Null, returned |-> list, written |-> keys]
    /\ scope_changes = <<>>
    /\ versions_cache = {FirstSyncProject}
    /\ synced = {FirstSyncProject}
    /\ ret = Returned
    /\ RunsIdle /\ DbsIdle /\ CalcIdle

NextSynced ==
    \/ Tick
    \/ \E h \in Estimates : RemoteCreate(FirstSyncProject, h)
    \/ \E id \in TicketIds, h \in Estimates : RemoteSetEstimate(id, h)
    \/ \E id \in TicketIds, s \in StatusIds : RemoteSetStatus(id, s)
    \/ \E c \in BOOLEAN, sd \in {Null, 0} : sync_project(FirstSyncProject, c, sd)
    \/ \E inc \in BOOLEAN, since \in SinceDates :
          fetch_project_updates(FirstSyncProject, inc, since)

SpecSynced == InitSynced /\ [][NextSynced]_vars

\* every persisted ticket of the project that the tracker still has carries
\* the tracker's status, completion date and estimate
Converged(tbl, project_id) ==
    \A r \in tbl : \A i \in remote :
        (r.project_id = project_id /\ i.id = r.id) =>
            /\ r.status_id = i.status_id
            /\ r.completed_on = completion_date(i)
            /\ r.estimated_hours = i.estimated_hours

\* C22: a sync_project (either include_closed) directly followed, with no
\* change on the tracker in between or afterwards, by an incremental
\* fetch_project_updates without sinceDate leaves every persisted ticket of
\* the project that still exists remotely with the remote status, completion
\* date and estimated hours, whatever was synced and fetched before.
C22_CacheConverges ==
    [][(/\ call.op = "sync_project"
        /\ Called("fetch_project_updates")
        /\ call'.project_id = call.project_id
        /\ call'.incremental /\ call'.since_date = Null)
       => Converged(tickets', call'.project_id)]_vars

\* C23: after any sequence of sync_project and fetch_project_updates calls,
\* also a fetch_project_updates on a project that was never synced, every
\* persisted ticket, snapshot and scope-change row refers to a project for
\* which a project row is persisted.
C23_ReferentialIntegrity ==
    \A p \in {r.project_id : r \in tickets} \cup {r.project_id : r \in daily_snapshots}
             \cup {e.project_id : e \in Range(scope_changes)} :
        \E q \in projects : q.id = p

\* ------------------------------------------- tickets the tracker drops
\* a ticket is deleted on the tracker
RemoteDelete(id) ==
    /\ edits < MaxEdits
    /\ calls < MaxCalls
    /\ \E i \in remote : i.id = id /\ remote' = remote \ {i}
    /\ edits' = edits + 1
    /\ call' = EnvCall
    /\ ret' = NoRet
    /\ UNCHANGED <<today, next_id, calls, store, counted, rebuilds, synced, aux>>

NextGone ==
    \/ Tick
    \/ \E id \in TicketIds : RemoteDelete(id)
    \/ \E id \in TicketIds, s \in StatusIds : RemoteSetStatus(id, s)
    \/ \E c \in BOOLEAN, sd \in {Null, 0} : sync_project(FirstSyncProject, c, sd)
    \/ \E inc \in BOOLEAN, since \in SinceDates :
          fetch_project_updates(FirstSyncProject, inc, since)

SpecGone == InitSynced /\ [][NextGone]_vars

\* the persisted tickets the adapter did not return to the call just made
NotReturned == {r \in tickets : \A i \in Range(call'.returned) : i.id # r.id}

\* C24: sync_project and fetch_project_updates remove no persisted ticket: a
\* ticket the adapter did not return (deleted on the tracker, or closed while
\* include_closed is false) keeps its row as it was, and every snapshot the
\* call rebuilds is computed over the persisted tickets with it among them.
C24_TicketsAreNeverRemoved ==
    [][(Called("sync_project") \/ Called("fetch_project_updates")) =>
        /\ NotReturned \subseteq tickets'
        /\ {r.id : r \in tickets} \subseteq {r.id : r \in tickets'}
        /\ \A k \in call'.written :
              /\ RowsOf(daily_snapshots', k[1], k[2]) # {}
              /\ \A row \in RowsOf(daily_snapshots', k[1], k[2]) :
                    Reconstructed(row, tickets')]_vars

\* a day after a ticket with hours was deleted on the tracker, and another
\* was closed, a sync without closed tickets has rebuilt today's snapshot
\* with the hours of both
C24_Witness ==
    /\ call.op = "sync_project"
    /\ today > 0
    /\ <<call.project_id, today>> \in call.written
    /\ \E r, c \in tickets :
          /\ r.project_id = call.project_id /\ c.project_id = call.project_id
          /\ \A i \in remote : i.id # r.id
          /\ \E i \in remote : i.id = c.id /\ i.status_id = 5 /\ c.status_id = 1
          /\ \A i \in Range(call.returned) : i.id # c.id
          /\ Hours(r.estimated_hours) > 0 /\ Hours(c.estimated_hours) > 0
          /\ \E row \in RowsOf(daily_snapshots, call.project_id, today) :
                row.total_estimated_hours
                   = Hours(r.estimated_hours) + Hours(c.estimated_hours)

\* ------------------------------------------------ days without a run
\* the calendar advances by several days between two calls
DaysPass(n) ==
    /\ today + n <= MaxIdleDays
    /\ calls < MaxCalls
    /\ today' = today + n
    /\ call' = EnvCall
    /\ ret' = NoRet
    /\ UNCHANGED <<remote, next_id, edits, calls, store, counted, rebuilds, synced, aux>>

NextIdleDays ==
    \/ \E n \in 1..MaxIdleDays : DaysPass(n)
    \/ \E id \in TicketIds : RemoteSetEstimate(id, MaxHours)
    \/ \E sd \in {Null} \cup (0..MaxIdleDays) :
          sync_project(FirstSyncProject, TRUE, sd)
    \/ \E inc \in BOOLEAN, since \in {Null} \cup (0..MaxIdleDays) :
          fetch_project_updates(FirstSyncProject, inc, since)

SpecIdleDays == InitSynced /\ [][NextIdleDays]_vars

SnapshotDates(project_id) == {r.date : r \in {s \in daily_snapshots : s.project_id = project_id}}

\* C25: after any sequence of sync_project and fetch_project_updates calls on
\* a project (any sinceDate, any number of days between calls, the project
\* start date possibly changing) every calendar day between the earliest and
\* the latest persisted snapshot date of the project has a snapshot row.
C25_SnapshotDatesHaveNoGaps ==
    \A p \in ProjectIds :
        SnapshotDates(p) # {} =>
            \A d \in MinOf(SnapshotDates(p))..MaxOf(SnapshotDates(p)) :
                d \in SnapshotDates(p)

\* =============================================== one batch of ticket rows
\* a rollback that keeps the rows written before the failing one
RollbackKeepsWritten(committed, pending) == pending

\* get_connection: conn.rollback() on sqlite3.Error; a connection closed
\* without commit discards its open transaction as well
Rollback(committed, pending) == committed

\* the error get_connection raises from an sqlite3.Error
PersistenceError(row) ==
    [kind |-> "raised", error |-> "DatabaseError", cause |-> "_save_tickets", at |-> row]

\* _save_tickets over execute_many when the row number fail_at (0: none) is
\* refused by the database: the rows before it are written in the open
\* transaction, then the connection rolls back
save_tickets_outcome(table, list, fail_at) ==
    IF list = <<>> THEN [tickets |-> table, ret |-> Returned]
    ELSE IF fail_at \in 1..Len(list)
    THEN [tickets |-> Rollback(table, _save_tickets(table, SubSeq(list, 1, fail_at - 1))),
          ret |-> PersistenceError(fail_at)]
    ELSE [tickets |-> _save_tickets(table, list), ret |-> Returned]

\* DataManager._save_tickets on the tickets the adapter returned
save_tickets(project_id, include_closed, fail_at) ==
    LET list == get_project_tickets(project_id, include_closed)
        out == save_tickets_outcome(tickets, list, fail_at)
    IN  /\ calls < MaxCalls
        /\ fail_at <= Len(list)
        /\ calls' = calls + 1
        /\ tickets' = out.tickets
        /\ ret' = out.ret
        /\ rebuilds' = Rebuilt(rebuilds, out.tickets = tickets, {})
        /\ call' = [op |-> "_save_tickets", project_id |-> project_id,
                    incremental |-> FALSE, since_date |-> Null,
                    asked_since |-> Null, returned |-> list, written |-> {}]
        /\ UNCHANGED <<today, remote, next_id, edits, projects, daily_snapshots,
                       scope_changes, versions_cache, counted, synced, aux>>

NextBatch ==
    \/ Tick
    \/ \E h \in Estimates : RemoteCreate(FirstSyncProject, h)
    \/ \E id \in TicketIds, h \in Estimates : RemoteSetEstimate(id, h)
    \/ \E id \in TicketIds, s \in StatusIds : RemoteSetStatus(id, s)
    \/ \E c \in BOOLEAN, fail_at \in 0..MaxTicketId :
          save_tickets(FirstSyncProject, c, fail_at)

SpecBatch == InitSynced /\ [][NextBatch]_vars

\* C26: _save_tickets on a list of tickets either persists every ticket of the
\* list, one row per ticket id that replaces any earlier row of that id, and
\* leaves the other rows alone, or, when writing a row fails, writes none of
\* them, leaves the persisted rows unchanged and raises a persistence error.
C26_BatchIsAtomic ==
    [][Called("_save_tickets") =>
        IF ret'.kind = "returned"
        THEN /\ \A t \in Range(call'.returned) :
                   {r \in tickets' : r.id = t.id} = {TicketRow(t)}
             /\ \A r \in tickets :
                   (\A t \in Range(call'.returned) : t.id # r.id) => r \in tickets'
             /\ {r.id : r \in tickets'}
                   = {r.id : r \in tickets} \cup {t.id : t \in Range(call'.returned)}
        ELSE /\ ret'.error = "DatabaseError"
             /\ tickets' = tickets]_vars

\* the second row of a batch was refused after a first row that differs from
\* the row persisted for its ticket
C26_Witness ==
    /\ call.op = "_save_tickets"
    /\ ret.kind = "raised"
    /\ ret.at = 2
    /\ \E r \in tickets : r.id = call.returned[1].id /\ r # TicketRow(call.returned[1])

\* ============================== connections and adapter calls of one call
\* What one sync_project or fetch_project_updates does with store connections
\* and the remote adapter, in program order.  Every store access is a
\* "with get_connection()" block: the connection is opened on entry and closed
\* by the finally clause on exit.
Do(do, what) == [do |-> do, what |-> what]
Block(what) == <<Do("open", what), Do("close", what)>>
AdapterCall(what) == <<Do("call", what), Do("return", what)>>

RECURSIVE Times(_, _)
Times(n, s) == IF n <= 0 THEN <<>> ELSE s \o Times(n - 1, s)

\* _build_daily_snapshots over `days` dates
BuildBlocks(has_start_date, days) ==
    Block("_get_project")
    \o (IF has_start_date THEN <<>> ELSE Block("MIN(created_on)"))
    \o Times(days, Block("_create_daily_snapshot"))

\* sync_project: its try block, statement by statement
SyncProgram(some_tickets, has_start_date, days) ==
    AdapterCall("get_project_data") \o Block("_save_project")
    \o AdapterCall("get_project_versions")
    \o AdapterCall("get_project_tickets")
    \o (IF some_tickets THEN Block("_save_tickets") ELSE <<>>)
    \o BuildBlocks(has_start_date, days)

RECURSIVE DetectBlocks(_)
\* _detect_scope_changes: per ticket a read-only connection, inside which
\* _record_scope_change opens its own when the estimate differs
DetectBlocks(differs) ==
    IF differs = <<>> THEN <<>>
    ELSE <<Do("open", "_detect_scope_changes")>>
         \o (IF Head(differs) THEN Block("_record_scope_change") ELSE <<>>)
         \o <<Do("close", "_detect_scope_changes")>>
         \o DetectBlocks(Tail(differs))

\* fetch_project_updates; differs: per returned ticket, whether the estimate
\* read back differs from the ticket's
FetchProgram(reads_watermark, differs, days) ==
    (IF reads_watermark THEN Block("_get_last_update_date") ELSE <<>>)
    \o AdapterCall("get_updated_tickets")
    \o (IF differs = <<>> THEN <<>>
        ELSE Block("_save_tickets") \o DetectBlocks(differs)
             \o Times(days, Block("_create_daily_snapshot")))

\* a connection that is never closed
ReleaseNever(open) == open

\* get_connection: "finally: if conn: conn.close()"
Release(open) == open - 1

NoProgram == [op |-> "none", program |-> <<>>, open |-> 0, adapter |-> "none",
              acquired |-> 0]

InitProgram ==
    StoreInit /\ RetIdle /\ DbsIdle /\ CalcIdle /\ runs = NoProgram

ProgramFrame ==
    UNCHANGED <<today, remote, next_id, edits, calls, store, counted, rebuilds,
                synced, call, dbs, calc>>

SyncCalled(some_tickets, has_start_date, days) ==
    /\ runs.program = <<>>
    /\ runs' = [NoProgram EXCEPT !.op = "sync_project",
                  !.program = SyncProgram(some_tickets, has_start_date, days)]
    /\ ret' = NoRet
    /\ ProgramFrame

FetchCalled(reads_watermark, differs, days) ==
    /\ runs.program = <<>>
    /\ runs' = [NoProgram EXCEPT !.op = "fetch_project_updates",
                  !.program = FetchProgram(reads_watermark, differs, days)]
    /\ ret' = NoRet
    /\ ProgramFrame

\* the end of the try block
Finished == IF runs.program = <<>> THEN NoRet
            ELSE IF Len(runs.program) = 1 THEN Returned ELSE NoRet

Acquire ==
    /\ runs.program # <<>> /\ Head(runs.program).do = "open"
    /\ runs' = [runs EXCEPT !.program = Tail(@), !.open = @ + 1, !.acquired = @ + 1]
    /\ ret' = NoRet
    /\ ProgramFrame

ReleaseConnection ==
    /\ runs.program # <<>> /\ Head(runs.program).do = "close"
    /\ runs' = [runs EXCEPT !.program = Tail(@), !.open = Release(@)]
    /\ ret' = Finished
    /\ ProgramFrame

AdapterCallBegins ==
    /\ runs.program # <<>> /\ Head(runs.program).do = "call"
    /\ runs' = [runs EXCEPT !.program = Tail(@), !.adapter = Head(runs.program).what]
    /\ ret' = NoRet
    /\ ProgramFrame

AdapterCallReturns ==
    /\ runs.program # <<>> /\ Head(runs.program).do = "return"
    /\ runs' = [runs EXCEPT !.program = Tail(@), !.adapter = "none"]
    /\ ret' = Finished
    /\ ProgramFrame

\* an exception in the adapter call or the store access in progress: it
\* leaves every with-block, whose finally clauses close the connections, and
\* the except clause of the operation raises DataManagerError
ProgramRaises ==
    /\ runs.program # <<>>
    /\ runs.adapter # "none" \/ runs.open > 0
    /\ runs' = [runs EXCEPT !.program = <<>>, !.open = 0, !.adapter = "none"]
    /\ ret' = [kind |-> "raised", error |-> "DataManagerError",
               cause |-> IF runs.adapter # "none" THEN runs.adapter ELSE "store",
               at |-> Null]
    /\ ProgramFrame

Differs == {<<>>} \cup {<<b>> : b \in BOOLEAN} \cup {<<a, b>> : a, b \in BOOLEAN}

NextProgram ==
    \/ \E t, s \in BOOLEAN, days \in 0..(MaxDay + 1) : SyncCalled(t, s, days)
    \/ \E w \in BOOLEAN, df \in Differs, days \in 1..(MaxDay + 1) :
          FetchCalled(w, df, days)
    \/ Acquire
    \/ ReleaseConnection
    \/ AdapterCallBegins
    \/ AdapterCallReturns
    \/ ProgramRaises

SpecProgram == InitProgram /\ [][NextProgram]_vars

\* C27: while a remote-adapter call of sync_project or fetch_project_updates
\* is in progress no store connection is open: every connection is acquired
\* and released between adapter calls.
C27_NoConnectionAcrossAdapterCall ==
    runs.adapter # "none" => runs.open = 0

\* the adapter is asked for the tickets after the call has had a connection
C27_Witness ==
    /\ runs.adapter \in {"get_project_tickets", "get_updated_tickets"}
    /\ runs.acquired >= 1
    /\ runs.open = 0

\* ----------------------------------------------------- the decaying line
FracLeq(a, b) == a.n * b.d <= b.n * a.d

\* the days calculate_ideal_line divides the initial hours by
TotalDays ==
    IF calc.exclude_weekends
    THEN get_business_days_between(calc.timeline.start_date, EffectiveEnd)
    ELSE EffectiveEnd - calc.timeline.start_date

\* one point per calendar day from the start date to the end date, from the
\* initial hours down to 0 at the end date, never rising, never negative
DecaysToZero(line, start_date, end_date, initial_hours) ==
    /\ Len(line) = end_date - start_date + 1
    /\ \A k \in 1..Len(line) :
          /\ line[k].date = start_date + k - 1
          /\ FracLeq(Frac(0, 1), line[k].hours)
          /\ k > 1 => FracLeq(line[k].hours, line[k - 1].hours)
    /\ IsPoint(line[1], start_date, initial_hours)
    /\ IsPoint(line[Len(line)], end_date, 0)

\* C28: for a timeline with a snapshot and a span of more than zero days,
\* calculate_ideal_line (no start_from_date) returns one point per calendar
\* day from the start date to the end date, the first with the initial hours,
\* never increasing, never below 0 and 0 at the end date, with total days
\* counted as calendar days and as business days.
C28_IdealLineDecaysToZero ==
    (/\ calc.op = "calculate_ideal_line"
     /\ calc.start_from_date = Null
     /\ calc.timeline.snapshots # <<>>
     /\ EffectiveEnd > calc.timeline.start_date
     /\ TotalDays > 0)
    => DecaysToZero(calc.line, calc.timeline.start_date, EffectiveEnd,
                    calc.timeline.snapshots[1].total_estimated_hours)

\* --------------------------------------------------------- the forecast
\* int(a / b) for a >= 0, b > 0
Truncated(a, b) == CHOOSE d \in 0..a : d * b <= a /\ a < (d + 1) * b

\* C29: calculate_completion_forecast on a timeline whose latest remaining
\* hours are > 0: with fewer than 2 snapshots or a velocity <= 0 it returns no
\* forecast date, no days remaining and confidence low; otherwise days
\* remaining = remaining hours / velocity truncated, forecast date = latest
\* snapshot date + days remaining, confidence high when the burn rate is
\* positive and medium otherwise, never low.
C29_ForecastFromVelocity ==
    LET s == calc.timeline.snapshots
        n == Len(s)
        gained == s[n].completed_hours - s[1].completed_hours
        burned == s[1].remaining_hours - s[n].remaining_hours
        f == calc.forecast
    IN  (/\ calc.op = "calculate_completion_forecast"
         /\ s # <<>>
         /\ s[n].remaining_hours > 0)
        => IF n < 2 \/ gained <= 0
           THEN /\ f.forecast_date = Null
                /\ f.days_remaining = Null
                /\ f.confidence = "low"
           ELSE /\ f.days_remaining = Truncated(s[n].remaining_hours * (n - 1), gained)
                /\ f.forecast_date = s[n].date + f.days_remaining
                /\ f.confidence = (IF burned > 0 THEN "high" ELSE "medium")

\* a forecast of medium confidence, days ahead: hours were completed over
\* three snapshots while the remaining hours did not fall
C29_Witness ==
    /\ calc.op = "calculate_completion_forecast"
    /\ Len(calc.timeline.snapshots) >= 3
    /\ calc.forecast.confidence = "medium"
    /\ calc.forecast.days_remaining >= 2
    /\ calc.forecast.forecast_date > today

\* ============================== calculator.py: the dynamic ideal line
\* hours_delta of a scope change: an estimate lowered or raised
ScopeDeltas == {0 - 1, 2}

\* a grouping that keeps the last change of a date only
_prepare_scope_changes_last(timeline) ==
    [d \in {timeline.scope_changes[i].date : i \in 1..Len(timeline.scope_changes)} |->
        LET at == {i \in 1..Len(timeline.scope_changes) :
                      timeline.scope_changes[i].date = d}
        IN  timeline.scope_changes[MaxOf(at)].hours_delta]

RECURSIVE SumDeltaFrom(_, _, _)
\* the sum of hours_delta of the changes of date d, from index i on
SumDeltaFrom(changes, d, i) ==
    IF i > Len(changes) THEN 0
    ELSE (IF changes[i].date = d THEN changes[i].hours_delta ELSE 0)
         + SumDeltaFrom(changes, d, i + 1)

\* _prepare_scope_changes_by_date: date -> sum of hours_delta
_prepare_scope_changes_by_date(timeline) ==
    [d \in {timeline.scope_changes[i].date : i \in 1..Len(timeline.scope_changes)} |->
        SumDeltaFrom(timeline.scope_changes, d, 1)]

\* _get_completed_hours_for_date: the first snapshot of that date, else 0.0
_get_completed_hours_for_date(timeline, target_date) ==
    LET hit == {i \in 1..Len(timeline.snapshots) :
                    timeline.snapshots[i].date = target_date}
    IN  IF hit = {} THEN 0
        ELSE timeline.snapshots[MinOf(hit)].completed_hours

\* _calculate_dynamic_remaining_hours
_calculate_dynamic_remaining_hours(timeline, current_date, end_date, current_total_hours, exclude_weekends) ==
    LET remaining_days == IF exclude_weekends
                          THEN get_business_days_between(current_date, end_date)
                          ELSE end_date - current_date
    IN  IF remaining_days <= 0 THEN 0
        ELSE current_total_hours
               - _get_completed_hours_for_date(timeline, current_date)

RECURSIVE _calculate_daily_dynamic_ideal(_, _, _, _, _, _)
\* _calculate_daily_dynamic_ideal: the while loop, from current_date on
_calculate_daily_dynamic_ideal(timeline, current_date, end_date, total_hours, by_date, exclude_weekends) ==
    IF current_date > end_date THEN <<>>
    ELSE LET current_total_hours ==
                 total_hours + (IF current_date \in DOMAIN by_date
                                THEN by_date[current_date] ELSE 0)
             remaining_hours ==
                 _calculate_dynamic_remaining_hours(timeline, current_date,
                     end_date, current_total_hours, exclude_weekends)
         IN  <<[date |-> current_date, hours |-> Max0(Frac(remaining_hours, 1))]>>
             \o _calculate_daily_dynamic_ideal(timeline, current_date + 1,
                    end_date, current_total_hours, by_date, exclude_weekends)

\* BurndownCalculator.calculate_dynamic_ideal_line
calculate_dynamic_ideal_line(timeline, exclude_weekends) ==
    IF timeline.snapshots = <<>> THEN <<>>
    ELSE _calculate_daily_dynamic_ideal(timeline, timeline.start_date,
             IF timeline.end_date # Null THEN timeline.end_date ELSE today,
             timeline.snapshots[1].total_estimated_hours,
             _prepare_scope_changes_by_date(timeline), exclude_weekends)

\* the scope changes of a timeline, in date order, none outside start..today
ScopeChangeLists(start_date) ==
    LET one == [date : start_date..today, hours_delta : ScopeDeltas]
    IN  {c \in UNION {[1..n -> one] : n \in 0..MaxScopeChanges} :
            \A i, j \in 1..Len(c) : i < j => c[i].date <= c[j].date}

\* snapshots with at most one hour, of which any part is completed
DynamicSnapshotChoices ==
    {x \in SnapshotChoices : x.total = Null \/ x.total <= 1}

\* a ProjectTimeline with scope changes, as calculate_project_timeline builds it
InitDynamic ==
    /\ StoreEmpty /\ RetIdle /\ RunsIdle /\ DbsIdle
    /\ today \in CalcDays
    /\ \E f \in [CalcDays -> DynamicSnapshotChoices], s \in CalcDays,
          e \in {Null} \cup CalcDays :
          /\ \A d \in CalcDays : f[d].total # Null => s <= d /\ d <= today
          /\ \E c \in ScopeChangeLists(s) :
                calc = [op |-> "none", exclude_weekends |-> FALSE,
                        start_from_date |-> Null, line |-> <<>>,
                        forecast |-> NoForecast,
                        timeline |-> [start_date |-> s, end_date |-> e,
                                      snapshots |-> SnapshotsOf(f),
                                      scope_changes |-> c]]

DynamicLineCalled(exclude_weekends) ==
    /\ calc' = [calc EXCEPT
                  !.op = "calculate_dynamic_ideal_line",
                  !.exclude_weekends = exclude_weekends,
                  !.line = calculate_dynamic_ideal_line(calc.timeline,
                                                        exclude_weekends)]
    /\ CalcFrame

NextDynamic == \E w \in BOOLEAN : DynamicLineCalled(w)

SpecDynamic == InitDynamic /\ [][NextDynamic]_vars

RECURSIVE RunningTotal(_, _)
\* the first snapshot's total plus every scope change dated from the start
\* date through d
RunningTotal(d, i) ==
    IF i > Len(calc.timeline.scope_changes)
    THEN calc.timeline.snapshots[1].total_estimated_hours
    ELSE (IF /\ calc.timeline.scope_changes[i].date >= calc.timeline.start_date
             /\ calc.timeline.scope_changes[i].date <= d
          THEN calc.timeline.scope_changes[i].hours_delta ELSE 0)
         + RunningTotal(d, i + 1)

CompletedOn(d) ==
    IF SnapshotAt(d) = {} THEN 0
    ELSE calc.timeline.snapshots[MinOf(SnapshotAt(d))].completed_hours

RemainingDays(d) ==
    IF calc.exclude_weekends
    THEN Cardinality({x \in d..EffectiveEnd : weekday(x) < 5 /\ x \notin country_holidays})
    ELSE EffectiveEnd - d

\* C30: calculate_dynamic_ideal_line returns one point for every calendar day
\* from the start date to the end date; the day's value is 0 when its
\* remaining days to the end date are zero or negative, and otherwise
\* max(0, running total - completed hours of the snapshot of that date, or 0),
\* the running total being the first snapshot's total plus the hours_delta of
\* every scope change dated up to that day.
C30_DynamicIdealLine ==
    (calc.op = "calculate_dynamic_ideal_line" /\ calc.timeline.snapshots # <<>>) =>
        /\ Len(calc.line) =
              (IF EffectiveEnd >= calc.timeline.start_date
               THEN EffectiveEnd - calc.timeline.start_date + 1 ELSE 0)
        /\ \A k \in 1..Len(calc.line) :
              LET d == calc.timeline.start_date + k - 1
                  value == RunningTotal(d, 1) - CompletedOn(d)
              IN  IsPoint(calc.line[k], d,
                          IF RemainingDays(d) <= 0 \/ value < 0 THEN 0 ELSE value)

\* two scope changes of one date raised the line above the first snapshot's
\* total on a day with completed hours, and a later day is reported as 0
C30_Witness ==
    /\ calc.op = "calculate_dynamic_ideal_line"
    /\ Len(calc.line) >= 3
    /\ \E i, j \in 1..Len(calc.timeline.scope_changes) :
          i < j /\ calc.timeline.scope_changes[i].date = calc.timeline.scope_changes[j].date
    /\ \E k \in 1..Len(calc.line) :
          /\ calc.line[k].hours.n > calc.timeline.snapshots[1].total_estimated_hours
          /\ CompletedOn(calc.line[k].date) > 0
    /\ calc.line[Len(calc.line)].hours.n = 0
====
